---------------------------- MODULE Spec2Model ----------------------------
(***************************************************************************)
(* TopSongs: the templated-HTTP-request and text-substitution pipeline and *)
(* the run of main().                                                      *)
(*                                                                         *)
(* Strings are sequences of one-character strings.  The module holds       *)
(* several specifications over the same variables:                         *)
(*   SpecNormalize  normalize_pattern on bounded pattern strings           *)
(*   SpecPatch      the bio patch of main (normalize, compile, find,       *)
(*                  replace), applied once and then to its own output      *)
(*   SpecVars       build_vars_map on bounded explicit pairs/environments  *)
(*   SpecSubst      apply_substitution on bounded request specs            *)
(*   Spec           one run of main(), split at its await points           *)
(*   SpecSend       one call of send_with_debug                            *)
(*   SpecRedactUrl, SpecRedactHeader  the debug lines of a request         *)
(*   SpecRender     the bio line of the chosen tracks                      *)
(*   SpecPeriod     the period of the run                                  *)
(*   SpecPicker     the interactive picker, one action per key             *)
(***************************************************************************)
EXTENDS Integers, Sequences, FiniteSets, TLC

VARIABLES
    stage,        \* position of a pure-function specification
    arg,          \* its inputs
    res,          \* its result
    pc,           \* position of main()
    opts,         \* the resolved options of the run (CLI > env > config)
    files,        \* the request templates present on disk
    requests,     \* the network requests sent so far, in order
    inflight,     \* the requests sent and not yet completed or failed
    response,     \* the result of the call main() awaited last
    current_bio,  \* the bio fetched from Discord
    new_bio,      \* the patched bio
    output,       \* the rendered bio line
    stdout,       \* what the run printed, in order
    stderr,       \* what the run reported as errors, in order
    exit          \* how the process ended

vars == <<stage, arg, res, pc, opts, files, requests, inflight, response,
          current_bio, new_bio, output, stdout, stderr, exit>>

runVars == <<pc, opts, files, requests, inflight, response,
             current_bio, new_bio, output, stdout, stderr, exit>>

fnVars == <<stage, arg, res>>

-----------------------------------------------------------------------------
(* Bounds *)

MaxPatLen == 3
MaxBioLen == 2
MaxBlockLen == 2
MaxRawLen == 4
MaxExplicit == 2
MaxEnv == 2
MaxHeaders == 2
MaxPieces == 3
MaxHeaderLines == 2
MaxBodyLines == 2
MaxParams == 2
MaxTracks == 2
MaxItems == 4

-----------------------------------------------------------------------------
(* Strings *)

NL == "\n"

Strs(A, n) == UNION {[1..k -> A] : k \in 0..n}

CR == "\r"

Whitespace == {" ", NL, CR}

\* Offsets are 0-based as in Rust: Slice(s, a, b) is s[a..b].
Slice(s, a, b) == SubSeq(s, a + 1, b)

\* Option<T>: None is the empty sequence, Some(v) is <<v>>.
None == <<>>
Some(v) == <<v>>

NoMatch == [found |-> FALSE, a |-> 0, b |-> 0]

-----------------------------------------------------------------------------
(* str::trim *)

RECURSIVE TrimStart(_)
TrimStart(s) ==
    IF s # <<>> /\ Head(s) \in Whitespace THEN TrimStart(Tail(s)) ELSE s

RECURSIVE TrimEnd(_)
TrimEnd(s) ==
    IF s # <<>> /\ s[Len(s)] \in Whitespace
    THEN TrimEnd(SubSeq(s, 1, Len(s) - 1))
    ELSE s

Trim(s) == TrimEnd(TrimStart(s))

-----------------------------------------------------------------------------
(* text.rs: normalize_pattern *)

NormalizePatternKeepTrailing(p) ==
    LET s == Trim(p) IN
    IF Len(s) >= 2 /\ s[1] = "/" /\ s[Len(s)] = "/"
    THEN SubSeq(s, 2, Len(s))
    ELSE s

NormalizePattern(p) ==
    LET s == Trim(p) IN
    IF Len(s) >= 2 /\ s[1] = "/" /\ s[Len(s)] = "/"
    THEN SubSeq(s, 2, Len(s) - 1)
    ELSE s

-----------------------------------------------------------------------------
(* Regex::new, on the pattern syntax the model draws patterns from:        *)
(* literal characters and the repetition operator '+'.  A compiled pattern *)
(* is a sequence of items [c, plus]; a '+' with nothing before it is the   *)
(* crate's "repetition operator missing expression" error, and a '+' after *)
(* a repetition repeats it again, which matches the same texts.            *)

RECURSIVE CompileFrom(_, _, _)
CompileFrom(p, i, items) ==
    IF i > Len(p) THEN [ok |-> TRUE, items |-> items]
    ELSE IF p[i] = "+"
         THEN IF items = <<>>
              THEN [ok |-> FALSE, items |-> <<>>]
              ELSE CompileFrom(p, i + 1,
                     [items EXCEPT ![Len(items)].plus = TRUE])
         ELSE CompileFrom(p, i + 1,
                Append(items, [c |-> p[i], plus |-> FALSE]))

RegexNew(pattern) == CompileFrom(pattern, 1, <<>>)

\* The number of consecutive c at offset pos of text.
RECURSIVE RunLen(_, _, _)
RunLen(text, pos, c) ==
    IF pos < Len(text) /\ text[pos + 1] = c
    THEN 1 + RunLen(text, pos + 1, c)
    ELSE 0

\* The end offset of the match of items[k..] starting at offset pos that the
\* backtracking order prefers (a repetition is greedy), or -1.
RECURSIVE MatchEnd(_, _, _, _)
RECURSIVE TryRun(_, _, _, _, _)
TryRun(items, k, text, pos, j) ==
    IF j < 1 THEN -1
    ELSE LET e == MatchEnd(items, k + 1, text, pos + j) IN
         IF e # -1 THEN e ELSE TryRun(items, k, text, pos, j - 1)

MatchEnd(items, k, text, pos) ==
    IF k > Len(items) THEN pos
    ELSE LET n == RunLen(text, pos, items[k].c) IN
         IF n = 0 THEN -1
         ELSE IF items[k].plus
              THEN TryRun(items, k, text, pos, n)
              ELSE MatchEnd(items, k + 1, text, pos + 1)

\* Regex::find: the leftmost match, [a, b) in offsets, or NoMatch.
RECURSIVE FindFrom(_, _, _)
FindFrom(items, text, a) ==
    IF a > Len(text) THEN NoMatch
    ELSE LET e == MatchEnd(items, 1, text, a) IN
         IF e # -1 THEN [found |-> TRUE, a |-> a, b |-> e]
         ELSE FindFrom(items, text, a + 1)

Find(re, text) == FindFrom(re.items, text, 0)

-----------------------------------------------------------------------------
(* Regex::replace with a &str replacement: the replacement is expanded,    *)
(* $name and $number being capture group references ($$ is a literal $).   *)
(* The patterns of the model have no capture groups, so group 0 (the whole *)
(* match) is the only group there is and any other reference expands to    *)
(* the empty string.                                                       *)

CapLetters == {"a", "b", "0", "1", "_"}

RECURSIVE CapEnd(_, _)
CapEnd(rep, i) ==
    IF i <= Len(rep) /\ rep[i] \in CapLetters THEN CapEnd(rep, i + 1) ELSE i

IsGroupZero(name) == \A i \in 1..Len(name) : name[i] = "0"

RECURSIVE ExpandFrom(_, _, _)
ExpandFrom(rep, i, m) ==
    IF i > Len(rep) THEN <<>>
    ELSE IF rep[i] # "$" THEN <<rep[i]>> \o ExpandFrom(rep, i + 1, m)
    ELSE IF i + 1 <= Len(rep) /\ rep[i + 1] = "$"
         THEN <<"$">> \o ExpandFrom(rep, i + 2, m)
    ELSE LET e == CapEnd(rep, i + 1) IN
         IF e = i + 1 THEN <<"$">> \o ExpandFrom(rep, i + 1, m)
         ELSE IF IsGroupZero(SubSeq(rep, i + 1, e - 1))
              THEN m \o ExpandFrom(rep, e, m)
              ELSE ExpandFrom(rep, e, m)

Expand(rep, m) == ExpandFrom(rep, 1, m)

\* Every match replaced, not only the first (Regex::replace_all).
RECURSIVE ReplaceAllFrom(_, _, _, _)
ReplaceAllFrom(re, text, rep, from) ==
    LET m == FindFrom(re.items, text, from) IN
    IF ~m.found THEN Slice(text, from, Len(text))
    ELSE Slice(text, from, m.a) \o Expand(rep, Slice(text, m.a, m.b))
         \o (IF m.b > m.a
             THEN ReplaceAllFrom(re, text, rep, m.b)
             ELSE IF m.b < Len(text)
                  THEN <<text[m.b + 1]>> \o ReplaceAllFrom(re, text, rep, m.b + 1)
                  ELSE <<>>)

ReplaceAll(re, text, rep) == ReplaceAllFrom(re, text, rep, 0)

\* Regex::replace: the first match only.
Replace(re, text, rep) ==
    LET m == Find(re, text) IN
    IF ~m.found THEN text
    ELSE Slice(text, 0, m.a) \o Expand(rep, Slice(text, m.a, m.b))
         \o Slice(text, m.b, Len(text))

-----------------------------------------------------------------------------
(* main.rs 463-491: the bio patch.  The result is InvalidPattern, NoMatch  *)
(* or Replaced with the new bio.                                           *)

PatchBio(bio, discord_bio_regex, out) ==
    LET pattern == NormalizePattern(discord_bio_regex)
        re == RegexNew(pattern)
    IN  IF ~re.ok THEN [kind |-> "InvalidPattern", text |-> bio]
        ELSE IF ~Find(re, bio).found THEN [kind |-> "NoMatch", text |-> bio]
        ELSE [kind |-> "Replaced",
              text |-> Replace(re, bio, out \o <<NL>>)]

-----------------------------------------------------------------------------
(* http_template.rs: build_vars_map.  A HashMap is a function on its keys, *)
(* the explicit pairs and the environment are sequences of [k, v].         *)

EmptyMap == [x \in {} |-> <<>>]

\* HashMap::insert: the value is overwritten when the key is present.
MapInsert(m, k, v) == [x \in DOMAIN m \cup {k} |-> IF x = k THEN v ELSE m[x]]

\* HashMap::entry(k).or_insert(v): the value present is kept.
MapOrInsert(m, k, v) == IF k \in DOMAIN m THEN m ELSE MapInsert(m, k, v)

RECURSIVE InsertAll(_, _, _)
InsertAll(m, pairs, i) ==
    IF i > Len(pairs) THEN m
    ELSE InsertAll(MapInsert(m, pairs[i].k, pairs[i].v), pairs, i + 1)

RECURSIVE OrInsertAll(_, _, _)
OrInsertAll(m, pairs, i) ==
    IF i > Len(pairs) THEN m
    ELSE OrInsertAll(MapOrInsert(m, pairs[i].k, pairs[i].v), pairs, i + 1)

BuildVarsMapEnvOverrides(base, env) ==
    InsertAll(InsertAll(EmptyMap, base, 1), env, 1)

BuildVarsMapFirstWins(base, env) ==
    OrInsertAll(OrInsertAll(EmptyMap, base, 1), env, 1)

BuildVarsMap(base, env) ==
    OrInsertAll(InsertAll(EmptyMap, base, 1), env, 1)

-----------------------------------------------------------------------------
(* http_template.rs: substitute_vars.  The regex \{\{([A-Za-z0-9_]+)\}\}   *)
(* is matched left to right without overlap; a match is replaced by the    *)
(* value of its name, or by itself when the name is not in the map.        *)

NameChars == {"A", "B", "H", "G", "a", "b", "v", "w", "x", "0", "1", "_"}

RECURSIVE NameEnd(_, _)
NameEnd(input, i) ==
    IF i <= Len(input) /\ input[i] \in NameChars THEN NameEnd(input, i + 1) ELSE i

\* The index of the last character of the token {{NAME}} starting at index i,
\* or 0 when none starts there.
TokenEnd(input, i) ==
    IF i + 1 <= Len(input) /\ input[i] = "{" /\ input[i + 1] = "{"
    THEN LET n == NameEnd(input, i + 2) IN
         IF n > i + 2 /\ n + 1 <= Len(input)
            /\ input[n] = "}" /\ input[n + 1] = "}"
         THEN n + 1
         ELSE 0
    ELSE 0

\* A substitution that drops a token whose name is not in the map.
RECURSIVE SubstituteFromDropsUnknown(_, _, _)
SubstituteFromDropsUnknown(input, i, map) ==
    IF i > Len(input) THEN <<>>
    ELSE LET e == TokenEnd(input, i) IN
         IF e = 0
         THEN <<input[i]>> \o SubstituteFromDropsUnknown(input, i + 1, map)
         ELSE LET key == SubSeq(input, i + 2, e - 2) IN
              (IF key \in DOMAIN map THEN map[key] ELSE <<>>)
              \o SubstituteFromDropsUnknown(input, e + 1, map)

RECURSIVE SubstituteFrom(_, _, _)
SubstituteFrom(input, i, map) ==
    IF i > Len(input) THEN <<>>
    ELSE LET e == TokenEnd(input, i) IN
         IF e = 0 THEN <<input[i]>> \o SubstituteFrom(input, i + 1, map)
         ELSE LET key == SubSeq(input, i + 2, e - 2) IN
              (IF key \in DOMAIN map THEN map[key] ELSE SubSeq(input, i, e))
              \o SubstituteFrom(input, e + 1, map)

\* A substitution that scans its own output once more.
SubstituteVarsRescans(input, map) ==
    SubstituteFrom(SubstituteFrom(input, 1, map), 1, map)

SubstituteVars(input, map) == SubstituteFrom(input, 1, map)

-----------------------------------------------------------------------------
(* http_template.rs: apply_substitution.  An HttpSpec is a record          *)
(* [method, url, headers, body], headers a sequence of [name, value] and   *)
(* body an Option.                                                         *)

ApplySubstitutionAlsoMethod(spec, map) ==
    [method |-> SubstituteVars(spec.method, map),
     url |-> SubstituteVars(spec.url, map),
     headers |-> [i \in 1..Len(spec.headers) |->
                    [name |-> SubstituteVars(spec.headers[i].name, map),
                     value |-> SubstituteVars(spec.headers[i].value, map)]],
     body |-> [i \in 1..Len(spec.body) |-> SubstituteVars(spec.body[i], map)]]

ApplySubstitution(spec, map) ==
    [method |-> spec.method,
     url |-> SubstituteVars(spec.url, map),
     headers |-> [i \in 1..Len(spec.headers) |->
                    [name |-> SubstituteVars(spec.headers[i].name, map),
                     value |-> SubstituteVars(spec.headers[i].value, map)]],
     body |-> [i \in 1..Len(spec.body) |-> SubstituteVars(spec.body[i], map)]]

-----------------------------------------------------------------------------
(* http_template.rs: parse_http_spec.  The content of a template is a      *)
(* string; BOM is the one character U+FEFF, which is not whitespace.  The  *)
(* result is [ok, err, spec]: err is the message of the error, in parts.   *)

BOM == "BOM"

StripPrefixBom(content) ==
    IF content # <<>> /\ Head(content) = BOM THEN Tail(content) ELSE content

\* str::replace("\r\n", "\n")
RECURSIVE ReplaceCrLf(_)
ReplaceCrLf(s) ==
    IF s = <<>> THEN <<>>
    ELSE IF Len(s) >= 2 /\ s[1] = CR /\ s[2] = NL
         THEN <<NL>> \o ReplaceCrLf(SubSeq(s, 3, Len(s)))
         ELSE <<s[1]>> \o ReplaceCrLf(Tail(s))

\* The 1-based index of the first c in s, 0 when there is none.
FindChar(s, c) ==
    IF \E i \in 1..Len(s) : s[i] = c
    THEN CHOOSE i \in 1..Len(s) : s[i] = c /\ \A j \in 1..(i - 1) : s[j] # c
    ELSE 0

\* str::lines: a line ends at "\n" or "\r\n", the ending is not part of the
\* line, and the last line needs no ending.
RECURSIVE Lines(_)
Lines(s) ==
    IF s = <<>> THEN <<>>
    ELSE LET k == FindChar(s, NL) IN
         IF k = 0 THEN <<s>>
         ELSE LET l == SubSeq(s, 1, k - 1) IN
              <<IF l # <<>> /\ l[Len(l)] = CR THEN SubSeq(l, 1, Len(l) - 1) ELSE l>>
              \o Lines(SubSeq(s, k + 1, Len(s)))

\* The index of the first line from i on that is neither blank nor a comment,
\* 0 when there is none.
RECURSIVE FirstLine(_, _)
FirstLine(lines, i) ==
    IF i > Len(lines) THEN 0
    ELSE LET l == Trim(lines[i]) IN
         IF l = <<>> \/ l[1] = "#" THEN FirstLine(lines, i + 1) ELSE i

\* str::split_whitespace
RECURSIVE SplitWhitespace(_)
SplitWhitespace(s) ==
    LET t == TrimStart(s) IN
    IF t = <<>> THEN <<>>
    ELSE LET n == IF \E i \in 1..Len(t) : t[i] \in Whitespace
                  THEN (CHOOSE i \in 1..Len(t) :
                           /\ t[i] \in Whitespace
                           /\ \A j \in 1..(i - 1) : t[j] \notin Whitespace) - 1
                  ELSE Len(t)
         IN  <<SubSeq(t, 1, n)>> \o SplitWhitespace(SubSeq(t, n + 1, Len(t)))

\* str::trim_start_matches(c)
RECURSIVE TrimStartMatches(_, _)
TrimStartMatches(s, c) ==
    IF s # <<>> /\ Head(s) = c THEN TrimStartMatches(Tail(s), c) ELSE s

\* The header of a line whose first ':' is at index idx.
SplitHeader(raw, idx) ==
    [name |-> Trim(SubSeq(raw, 1, idx - 1)),
     value |-> Trim(TrimStartMatches(SubSeq(raw, idx, Len(raw)), ":"))]

\* A push that replaces the value of a header of the same name.
PushHeaderMerging(headers, h) ==
    IF \E i \in 1..Len(headers) : headers[i].name = h.name
    THEN [i \in 1..Len(headers) |->
            IF headers[i].name = h.name THEN h ELSE headers[i]]
    ELSE Append(headers, h)

PushHeader(headers, h) == Append(headers, h)

InvalidHeaderLineTrimmed(raw) == <<"Invalid header line: ", Trim(raw)>>

InvalidHeaderLine(raw) == <<"Invalid header line: ", raw>>

\* A join of the trimmed lines.
RECURSIVE JoinLinesTrimmed(_)
JoinLinesTrimmed(ls) ==
    IF ls = <<>> THEN <<>>
    ELSE IF Len(ls) = 1 THEN Trim(ls[1])
    ELSE Trim(ls[1]) \o <<NL>> \o JoinLinesTrimmed(Tail(ls))

\* body_lines.join("\n")
RECURSIVE JoinLines(_)
JoinLines(ls) ==
    IF ls = <<>> THEN <<>>
    ELSE IF Len(ls) = 1 THEN ls[1]
    ELSE ls[1] \o <<NL>> \o JoinLines(Tail(ls))

\* A body that is never absent.
BodyOfAlwaysSome(body_lines) == Some(JoinLines(body_lines))

BodyOf(body_lines) ==
    IF body_lines = <<>> THEN None ELSE Some(JoinLines(body_lines))

ParseErr(msg) == [ok |-> FALSE, err |-> msg, spec |-> <<>>]

\* The loop over the lines after the request line.
RECURSIVE ParseRest(_, _, _, _, _, _, _)
ParseRest(method, url, lines, i, in_body, headers, body_lines) ==
    IF i > Len(lines)
    THEN [ok |-> TRUE, err |-> <<>>,
          spec |-> [method |-> method, url |-> url, headers |-> headers,
                    body |-> BodyOf(body_lines)]]
    ELSE LET raw == lines[i] IN
         IF in_body
         THEN ParseRest(method, url, lines, i + 1, TRUE, headers,
                        Append(body_lines, raw))
         ELSE IF Trim(raw) = <<>>
         THEN ParseRest(method, url, lines, i + 1, TRUE, headers, body_lines)
         ELSE IF TrimStart(raw)[1] = "#"
         THEN ParseRest(method, url, lines, i + 1, FALSE, headers, body_lines)
         ELSE LET idx == FindChar(raw, ":") IN
              IF idx # 0
              THEN ParseRest(method, url, lines, i + 1, FALSE,
                             PushHeader(headers, SplitHeader(raw, idx)),
                             body_lines)
              ELSE ParseErr(InvalidHeaderLine(raw))

ParseHttpSpec(content) ==
    LET lines == Lines(ReplaceCrLf(StripPrefixBom(content)))
        f == FirstLine(lines, 1)
    IN  IF f = 0 THEN ParseErr(<<".http file missing request line">>)
        ELSE LET parts == SplitWhitespace(Trim(lines[f])) IN
             IF Len(parts) < 1 THEN ParseErr(<<"Missing HTTP method">>)
             ELSE IF Len(parts) < 2 THEN ParseErr(<<"Missing URL">>)
             ELSE ParseRest(TrimStartMatches(parts[1], BOM), parts[2],
                            lines, f + 1, FALSE, <<>>, <<>>)

-----------------------------------------------------------------------------
(* Idle values of the variables a specification does not use *)

RunIdle ==
    /\ pc = "idle"
    /\ opts = <<>>
    /\ files = {}
    /\ requests = <<>>
    /\ inflight = {}
    /\ response = "none"
    /\ current_bio = None
    /\ new_bio = None
    /\ output = None
    /\ stdout = <<>>
    /\ stderr = <<>>
    /\ exit = "running"

FnIdle ==
    /\ stage = "idle"
    /\ arg = <<>>
    /\ res = <<>>

-----------------------------------------------------------------------------
(* SpecPatch: the bio patch on bounded inputs *)

PatAlphabet == {"a", NL, "+"}
BioAlphabet == {"a", NL}
BlockAlphabet == {"a", "$", "0"}

PatchPatterns == Strs(PatAlphabet, MaxPatLen)
PatchBios == Strs(BioAlphabet, MaxBioLen)
PatchBlocks == Strs(BlockAlphabet, MaxBlockLen)

InitPatch ==
    /\ stage = "input"
    /\ arg \in [bio : PatchBios, pattern : PatchPatterns, block : PatchBlocks]
    /\ res = <<>>
    /\ RunIdle

PatchApply ==
    /\ stage = "input"
    /\ stage' = "patched"
    /\ res' = [first |-> PatchBio(arg.bio, arg.pattern, arg.block)]
    /\ UNCHANGED <<arg, runVars>>

PatchAgain ==
    /\ stage = "patched"
    /\ res.first.kind = "Replaced"
    /\ stage' = "repatched"
    /\ res' = [first |-> res.first,
               second |-> PatchBio(res.first.text, arg.pattern, arg.block)]
    /\ UNCHANGED <<arg, runVars>>

NextPatch == PatchApply \/ PatchAgain

SpecPatch == InitPatch /\ [][NextPatch]_vars

-----------------------------------------------------------------------------
(* What "the first match" means, stated without the matcher: a text is in  *)
(* the language of the items when it splits into one run per item, and the *)
(* first match is the leftmost span in the language, the longest one from  *)
(* its start (the greedy preference, for these patterns).                  *)

RECURSIVE InLang(_, _)
InLang(items, s) ==
    IF items = <<>> THEN s = <<>>
    ELSE \E j \in 1..Len(s) :
            /\ \A i \in 1..j : s[i] = Head(items).c
            /\ Head(items).plus \/ j = 1
            /\ InLang(Tail(items), SubSeq(s, j + 1, Len(s)))

IsFirstMatch(items, text, a, b) ==
    /\ a <= b
    /\ InLang(items, Slice(text, a, b))
    /\ \A a2 \in 0..Len(text), b2 \in 0..Len(text) :
          (a2 <= b2 /\ InLang(items, Slice(text, a2, b2)))
             => (a < a2 \/ (a = a2 /\ b2 <= b))

Offsets(text) == 0..Len(text)

PatchItems == RegexNew(NormalizePattern(arg.pattern)).items

Patched == stage \in {"patched", "repatched"} /\ res.first.kind = "Replaced"

\* The matcher finds the first match (a check of the model of the regex crate).
FindIsFirstMatch ==
    (stage = "input" /\ RegexNew(NormalizePattern(arg.pattern)).ok) =>
        LET m == Find(RegexNew(NormalizePattern(arg.pattern)), arg.bio) IN
        /\ m.found => IsFirstMatch(PatchItems, arg.bio, m.a, m.b)
        /\ ~m.found => \A a \in Offsets(arg.bio), b \in Offsets(arg.bio) :
                          ~IsFirstMatch(PatchItems, arg.bio, a, b)

\* C2: whenever the pattern matches the bio T and its first match is [a,b),
\* the patched bio is T[0:a] + block + "\n" + T[b:], whatever the block.
C2_PatchedIsLiteralSplice ==
    Patched =>
        \A a \in Offsets(arg.bio), b \in Offsets(arg.bio) :
            IsFirstMatch(PatchItems, arg.bio, a, b) =>
                res.first.text = Slice(arg.bio, 0, a) \o arg.block \o <<NL>>
                                 \o Slice(arg.bio, b, Len(arg.bio))

\* The same for blocks without a '$' (what the code does guarantee).
PatchedIsLiteralSpliceDollarFree ==
    (\A i \in 1..Len(arg.block) : arg.block[i] # "$") => C2_PatchedIsLiteralSplice

\* C3: the patch acts on the first match only: the text before the span and
\* the text after it are kept, later matching regions included.
C3_OnlyFirstMatchTouched ==
    Patched =>
        \A a \in Offsets(arg.bio), b \in Offsets(arg.bio) :
            IsFirstMatch(PatchItems, arg.bio, a, b) =>
                LET new == res.first.text
                    rest == Len(arg.bio) - b
                IN  /\ Len(new) >= a + rest
                    /\ Slice(new, 0, a) = Slice(arg.bio, 0, a)
                    /\ Slice(new, Len(new) - rest, Len(new))
                         = Slice(arg.bio, b, Len(arg.bio))

\* The patch replaced a first match that is followed by another match.
C3_Witness ==
    /\ Patched
    /\ \E a \in Offsets(arg.bio), b \in Offsets(arg.bio) :
          /\ IsFirstMatch(PatchItems, arg.bio, a, b)
          /\ a < b
          /\ \E a2 \in b..Len(arg.bio), b2 \in b..Len(arg.bio) :
                a2 < b2 /\ InLang(PatchItems, Slice(arg.bio, a2, b2))
          /\ res.first.text # arg.bio

\* C6: patching the patch's own output again gives that output back exactly
\* when the first match in it is the region the first patch inserted.
InsertedSpanRematched ==
    \E a \in Offsets(arg.bio), b \in Offsets(arg.bio) :
        /\ IsFirstMatch(PatchItems, arg.bio, a, b)
        /\ IsFirstMatch(PatchItems, res.first.text, a,
                        Len(res.first.text) - (Len(arg.bio) - b))

C6_IdempotentIffInsertedSpanRematched ==
    stage = "repatched" =>
        ((res.second.kind = "Replaced" /\ res.second.text = res.first.text)
            <=> InsertedSpanRematched)

\* The same for blocks without a '$'.
IdempotentIffDollarFree ==
    (\A i \in 1..Len(arg.block) : arg.block[i] # "$")
        => C6_IdempotentIffInsertedSpanRematched

-----------------------------------------------------------------------------
(* SpecNormalize: normalize_pattern on bounded pattern strings *)

RawAlphabet == {"/", " ", "a", "+"}

RawPatterns == Strs(RawAlphabet, MaxRawLen)

InitNormalize ==
    /\ stage = "input"
    /\ arg \in [raw : RawPatterns]
    /\ res = <<>>
    /\ RunIdle

NormalizeApply ==
    /\ stage = "input"
    /\ stage' = "normalized"
    /\ res' = [pattern |-> NormalizePattern(arg.raw)]
    /\ UNCHANGED <<arg, runVars>>

NextNormalize == NormalizeApply

SpecNormalize == InitNormalize /\ [][NextNormalize]_vars

\* A string wrapped in a leading and a trailing '/' (two delimiters).
Wrapped(s) == Len(s) >= 2 /\ s[1] = "/" /\ s[Len(s)] = "/"

Inner(s) == SubSeq(s, 2, Len(s) - 1)

\* s is t with whitespace removed from both ends, and only whitespace.
IsTrimOf(s, t) ==
    /\ \E i \in 0..Len(t), j \in 0..Len(t) :
          /\ i <= j
          /\ s = Slice(t, i, j)
          /\ \A k \in 1..i : t[k] \in Whitespace
          /\ \A k \in (j + 1)..Len(t) : t[k] \in Whitespace
    /\ s # <<>> => (s[1] \notin Whitespace /\ s[Len(s)] \notin Whitespace)

\* C7 as stated: a wrapped pattern loses exactly its two delimiters, every
\* other pattern string is used unchanged.
C7_StrippedOrUnchanged ==
    stage = "normalized" =>
        res.pattern = IF Wrapped(arg.raw) THEN Inner(arg.raw) ELSE arg.raw

\* C7 amended: the pattern is first trimmed of surrounding whitespace; the
\* trimmed string loses exactly its two delimiters when it is wrapped in
\* '/', and is used unchanged otherwise.
C7_TrimmedThenStripped ==
    stage = "normalized" =>
        \E s \in RawPatterns :
            /\ IsTrimOf(s, arg.raw)
            /\ res.pattern = IF Wrapped(s) THEN Inner(s) ELSE s

\* A whitespace-padded, slash-wrapped pattern was trimmed and stripped.
C7_Witness ==
    /\ stage = "normalized"
    /\ Len(arg.raw) = 4
    /\ arg.raw[1] = " "
    /\ Wrapped(Tail(arg.raw))
    /\ res.pattern = <<arg.raw[3]>>

-----------------------------------------------------------------------------
(* SpecVars: build_vars_map on bounded explicit pairs and environments *)

VarNames == {<<"A">>, <<"B">>}
ExplicitValues == {<<"v">>, <<"w">>}
EnvValues == {<<"v">>, <<"x">>}

SeqsUpTo(S, n) == UNION {[1..k -> S] : k \in 0..n}

DistinctKeys(pairs) ==
    \A i \in 1..Len(pairs), j \in 1..Len(pairs) :
        pairs[i].k = pairs[j].k => i = j

Environments ==
    {e \in SeqsUpTo([k : VarNames, v : EnvValues], MaxEnv) : DistinctKeys(e)}

InitVars ==
    /\ stage = "input"
    /\ arg \in [base : SeqsUpTo([k : VarNames, v : ExplicitValues], MaxExplicit),
                 env : Environments]
    /\ res = <<>>
    /\ RunIdle

VarsBuild ==
    /\ stage = "input"
    /\ stage' = "built"
    /\ res' = [map |-> BuildVarsMap(arg.base, arg.env)]
    /\ UNCHANGED <<arg, runVars>>

NextVars == VarsBuild

SpecVars == InitVars /\ [][NextVars]_vars

ExplicitNames == {arg.base[i].k : i \in 1..Len(arg.base)}

\* C8: every explicitly supplied name maps to a value supplied explicitly for
\* it, whatever the environment holds; an environment variable is in the map
\* under a name only when no explicit pair has that name.
C8_ExplicitNeverShadowed ==
    stage = "built" =>
        /\ \A i \in 1..Len(arg.base) :
              /\ arg.base[i].k \in DOMAIN res.map
              /\ \E j \in 1..Len(arg.base) :
                    /\ arg.base[j].k = arg.base[i].k
                    /\ res.map[arg.base[i].k] = arg.base[j].v
        /\ \A j \in 1..Len(arg.env) :
              arg.env[j].k \notin ExplicitNames =>
                  /\ arg.env[j].k \in DOMAIN res.map
                  /\ res.map[arg.env[j].k] = arg.env[j].v
        /\ DOMAIN res.map = ExplicitNames \cup {arg.env[j].k : j \in 1..Len(arg.env)}

\* A name is supplied explicitly and set in the environment to a value no
\* explicit pair gives it.
C8_Witness ==
    /\ stage = "built"
    /\ \E i \in 1..Len(arg.base), j \in 1..Len(arg.env) :
          /\ arg.base[i].k = arg.env[j].k
          /\ arg.env[j].v = <<"x">>
          /\ res.map[arg.base[i].k] = arg.base[i].v

\* C9 as stated: of two explicit pairs with the same key, the first supplied
\* value is the one kept.
C9_FirstWins ==
    stage = "built" =>
        \A i \in 1..Len(arg.base) :
            (\A j \in 1..(i - 1) : arg.base[j].k # arg.base[i].k)
                => res.map[arg.base[i].k] = arg.base[i].v

\* C9 amended: the last supplied value is the one kept.
C9_LastWins ==
    stage = "built" =>
        \A i \in 1..Len(arg.base) :
            (\A j \in (i + 1)..Len(arg.base) : arg.base[j].k # arg.base[i].k)
                => res.map[arg.base[i].k] = arg.base[i].v

\* The same key is supplied twice with different values.
C9_Witness ==
    /\ stage = "built"
    /\ \E i \in 1..Len(arg.base), j \in 1..Len(arg.base) :
          /\ i < j
          /\ arg.base[i].k = arg.base[j].k
          /\ arg.base[i].v # arg.base[j].v
          /\ res.map[arg.base[j].k] = arg.base[j].v

-----------------------------------------------------------------------------
(* SpecSubst: apply_substitution on bounded request specs *)

Tok(name) == <<"{", "{">> \o name \o <<"}", "}">>

SubstMethods == {<<"G">>, Tok(<<"A">>)}
SubstUrls == {<<"x">>, Tok(<<"A">>), <<"x">> \o Tok(<<"B">>)}
SubstHeaderNames == {<<"H">>, Tok(<<"A">>)}
SubstHeaderValues == {<<"x">>, Tok(<<"A">>), Tok(<<"B">>)}
SubstBodies == {None} \cup {Some(t) : t \in SubstUrls}
SubstMaps == UNION {[D -> {<<"v">>}] : D \in SUBSET VarNames}

InitSubst ==
    /\ stage = "input"
    /\ arg \in [spec : [method : SubstMethods,
                         url : SubstUrls,
                         headers : SeqsUpTo([name : SubstHeaderNames,
                                             value : SubstHeaderValues],
                                            MaxHeaders),
                         body : SubstBodies],
                 map : SubstMaps]
    /\ res = <<>>
    /\ RunIdle

SubstApply ==
    /\ stage = "input"
    /\ stage' = "substituted"
    /\ res' = [spec |-> ApplySubstitution(arg.spec, arg.map)]
    /\ UNCHANGED <<arg, runVars>>

NextSubst == SubstApply

SpecSubst == InitSubst /\ [][NextSubst]_vars

\* C10 as stated: the method and every header name are unchanged, and the
\* number and order of the headers are kept.
C10_MethodAndHeaderNamesUnchanged ==
    stage = "substituted" =>
        /\ res.spec.method = arg.spec.method
        /\ Len(res.spec.headers) = Len(arg.spec.headers)
        /\ \A i \in 1..Len(arg.spec.headers) :
              res.spec.headers[i].name = arg.spec.headers[i].name

\* C10 amended: placeholders are substituted in the URL, in each header name,
\* in each header value and in the body; the method is unchanged, also when
\* it holds a resolvable token; the number and order of the headers are kept.
C10_MethodUnchangedHeadersInOrder ==
    stage = "substituted" =>
        /\ res.spec.method = arg.spec.method
        /\ res.spec.url = SubstituteVars(arg.spec.url, arg.map)
        /\ Len(res.spec.headers) = Len(arg.spec.headers)
        /\ \A i \in 1..Len(arg.spec.headers) :
              /\ res.spec.headers[i].name
                   = SubstituteVars(arg.spec.headers[i].name, arg.map)
              /\ res.spec.headers[i].value
                   = SubstituteVars(arg.spec.headers[i].value, arg.map)
        /\ Len(res.spec.body) = Len(arg.spec.body)
        /\ \A i \in 1..Len(arg.spec.body) :
              res.spec.body[i] = SubstituteVars(arg.spec.body[i], arg.map)

\* The method and a header name hold a token whose key is in the map: the
\* header name was replaced by the value, the method was not.
C10_Witness ==
    /\ stage = "substituted"
    /\ <<"A">> \in DOMAIN arg.map
    /\ arg.spec.method = Tok(<<"A">>)
    /\ Len(arg.spec.headers) = 2
    /\ arg.spec.headers[1].name = Tok(<<"A">>)
    /\ arg.spec.headers[2].name = <<"H">>
    /\ res.spec.headers[1].name = arg.map[<<"A">>]
    /\ res.spec.headers[2].name = <<"H">>
    /\ res.spec.method = Tok(<<"A">>)

-----------------------------------------------------------------------------
(* SpecSubstText: substitute_vars on bounded texts.  A text is made of up  *)
(* to MaxPieces pieces: whole tokens, single braces, a brace pair around a *)
(* character that no name holds, and plain characters.  A value of the map *)
(* may itself be a token.                                                  *)

TextPieces ==
    {Tok(<<"A">>), Tok(<<"B">>), Tok(<<"-">>), <<"{">>, <<"}">>, <<"x">>}

RECURSIVE Concat(_)
Concat(ps) == IF ps = <<>> THEN <<>> ELSE Head(ps) \o Concat(Tail(ps))

SubstTexts == {Concat(ps) : ps \in SeqsUpTo(TextPieces, MaxPieces)}
SubstValues == {<<"v">>, Tok(<<"A">>), Tok(<<"B">>)}
SubstTextMaps == UNION {[D -> SubstValues] : D \in SUBSET VarNames}

InitSubstText ==
    /\ stage = "text"
    /\ arg \in [input : SubstTexts, map : SubstTextMaps]
    /\ res = <<>>
    /\ RunIdle

SubstTextApply ==
    /\ stage = "text"
    /\ stage' = "text_substituted"
    /\ res' = [text |-> SubstituteVars(arg.input, arg.map)]
    /\ UNCHANGED <<arg, runVars>>

NextSubstText == SubstTextApply

SpecSubstText == InitSubstText /\ [][NextSubstText]_vars

\* t[i..e] is a token: two opening braces, one or more name characters, two
\* closing braces.  Two tokens of a text never overlap.
IsTokenAt(t, i, e) ==
    /\ 1 <= i /\ i + 4 <= e /\ e <= Len(t)
    /\ t[i] = "{" /\ t[i + 1] = "{" /\ t[e - 1] = "}" /\ t[e] = "}"
    /\ \A j \in (i + 2)..(e - 2) : t[j] \in NameChars

TokenKey(t, i, e) == SubSeq(t, i + 2, e - 2)

\* t[i..e] is a token whose name is a key of the map.
IsResolvedAt(t, map, i, e) == IsTokenAt(t, i, e) /\ TokenKey(t, i, e) \in DOMAIN map

\* What the resolved token ending at e, if there is one, adds to the length.
Delta(t, map, e) ==
    IF \E i \in 1..e : IsResolvedAt(t, map, i, e)
    THEN LET i == CHOOSE i \in 1..e : IsResolvedAt(t, map, i, e) IN
         Len(map[TokenKey(t, i, e)]) - (e - i + 1)
    ELSE 0

RECURSIVE SumDelta(_, _, _)
SumDelta(t, map, e) ==
    IF e <= 0 THEN 0 ELSE SumDelta(t, map, e - 1) + Delta(t, map, e)

\* Where the character at index j of the input lands in the output.
Landing(t, map, j) == j + SumDelta(t, map, j - 1)

InResolved(t, map, j) ==
    \E i \in 1..j, e \in j..Len(t) : IsResolvedAt(t, map, i, e)

\* C11: substitution changes nothing but resolved placeholders: every
\* character outside a token whose key is in the map is found in the output,
\* in order; so a token whose key is absent stays, braces included, and a
\* text without a resolved token (in particular without any token) is
\* returned unchanged, whatever the map.
C11_OnlyResolvedTokensChange ==
    stage = "text_substituted" =>
        /\ Len(res.text) = Len(arg.input) + SumDelta(arg.input, arg.map, Len(arg.input))
        /\ \A j \in 1..Len(arg.input) :
              ~InResolved(arg.input, arg.map, j)
                  => res.text[Landing(arg.input, arg.map, j)] = arg.input[j]
        /\ \A i \in 1..Len(arg.input), e \in 1..Len(arg.input) :
              (IsTokenAt(arg.input, i, e) /\ ~IsResolvedAt(arg.input, arg.map, i, e))
                  => SubSeq(res.text, Landing(arg.input, arg.map, i),
                            Landing(arg.input, arg.map, e))
                       = SubSeq(arg.input, i, e)
        /\ (\A i \in 1..Len(arg.input), e \in 1..Len(arg.input) :
               ~IsResolvedAt(arg.input, arg.map, i, e))
              => res.text = arg.input

\* A resolved token is followed by a token whose key is absent, and the
\* latter is in the output with its braces.
C11_Witness ==
    /\ stage = "text_substituted"
    /\ arg.input = Tok(<<"A">>) \o Tok(<<"B">>) \o <<"{">>
    /\ DOMAIN arg.map = {<<"A">>}
    /\ arg.map[<<"A">>] = <<"v">>
    /\ res.text = <<"v">> \o Tok(<<"B">>) \o <<"{">>

\* C12: one pass from left to right: each resolved token is replaced by its
\* value as it is, also when the value is itself a token whose key is in the
\* map; with C11 this fixes the whole output.
C12_SinglePassValuesVerbatim ==
    stage = "text_substituted" =>
        \A i \in 1..Len(arg.input), e \in 1..Len(arg.input) :
            IsResolvedAt(arg.input, arg.map, i, e)
                => LET v == arg.map[TokenKey(arg.input, i, e)]
                       a == Landing(arg.input, arg.map, i)
                   IN  /\ a + Len(v) - 1 <= Len(res.text)
                       /\ SubSeq(res.text, a, a + Len(v) - 1) = v

\* The value of A is the token of B, B is in the map, and the output of the
\* token of A is the token of B, not the value of B.
C12_Witness ==
    /\ stage = "text_substituted"
    /\ arg.input = Tok(<<"A">>)
    /\ DOMAIN arg.map = VarNames
    /\ arg.map[<<"A">>] = Tok(<<"B">>)
    /\ arg.map[<<"B">>] = <<"v">>
    /\ res.text = Tok(<<"B">>)

-----------------------------------------------------------------------------
(* SpecParse: parse_http_spec on bounded template contents.  A content is  *)
(* made of lines: an optional comment and blank line, at most one request  *)
(* line, up to MaxHeaderLines lines of the header section, and, after a    *)
(* blank line, up to MaxBodyLines lines.  The lines end in "\n" or in      *)
(* "\r\n", and the last line has its ending or not.                        *)

CommentLine == <<"#", "c">>
BlankLine == <<>>

ReqTwoTokens == <<" ", "G", " ", "u", " ", "x">>
ReqOneToken == <<"G">>
ReqBomToken == <<BOM, " ", "u">>
ReqBomMethod == <<BOM, "G", " ", "u">>
ReqLines == {ReqTwoTokens, ReqOneToken, ReqBomToken, ReqBomMethod}

HeaderSpaced == <<" ", "A", " ", ":", " ", "1", " ">>
HeaderColonInValue == <<"A", ":", "2", ":", "4">>
HeaderDoubleColon == <<"B", ":", ":", "3">>
HeaderNoColon == <<" ", "G">>
HeaderSectionLines ==
    {HeaderSpaced, HeaderColonInValue, HeaderDoubleColon, CommentLine,
     HeaderNoColon}

BodyLines == {<<"#", "b", " ">>, BlankLine}

LineEndings == {<<NL>>, <<CR, NL>>}

AllLines(g) ==
    g.pre \o g.req \o g.hdr \o (IF g.sep THEN <<BlankLine>> \o g.body ELSE <<>>)

\* The text of the lines: every line is followed by the ending, the last one
\* only when final.
RECURSIVE TextOf(_, _, _)
TextOf(ls, eol, final) ==
    IF ls = <<>> THEN <<>>
    ELSE IF Len(ls) = 1 THEN ls[1] \o (IF final THEN eol ELSE <<>>)
    ELSE ls[1] \o eol \o TextOf(Tail(ls), eol, final)

\* A content without a request line has nothing after its comments; a last
\* line without an ending is not empty.
Contents ==
    {g \in [pre : {<<>>, <<CommentLine, BlankLine>>},
            req : SeqsUpTo(ReqLines, 1),
            hdr : SeqsUpTo(HeaderSectionLines, MaxHeaderLines),
            sep : BOOLEAN,
            body : SeqsUpTo(BodyLines, MaxBodyLines),
            eol : LineEndings,
            final : BOOLEAN] :
        /\ g.req = <<>> => g.hdr = <<>> /\ ~g.sep
        /\ ~g.sep => g.body = <<>>
        /\ ~g.final => /\ AllLines(g) # <<>>
                       /\ AllLines(g)[Len(AllLines(g))] # <<>>}

InitParse ==
    /\ stage = "content"
    /\ \E g \in Contents :
          arg = [content |-> TextOf(AllLines(g), g.eol, g.final), gen |-> g]
    /\ res = <<>>
    /\ RunIdle

ParseApply ==
    /\ stage = "content"
    /\ stage' = "parsed"
    /\ res' = ParseHttpSpec(arg.content)
    /\ UNCHANGED <<arg, runVars>>

NextParse == ParseApply

SpecParse == InitParse /\ [][NextParse]_vars

Parsed == stage = "parsed"

IsComment(l) == l # <<>> /\ l[1] = "#"

HasColon(l) == \E i \in 1..Len(l) : l[i] = ":"

FirstColon(l) ==
    CHOOSE i \in 1..Len(l) : l[i] = ":" /\ \A j \in 1..(i - 1) : l[j] # ":"

\* The lines of the header section that are not comments.
HeaderLinesOf(g) == SelectSeq(g.hdr, LAMBDA l : ~IsComment(l))

\* The request line has its two tokens, whatever precedes it.
ValidRequestLine(g) == g.req \in {<<ReqTwoTokens>>, <<ReqBomMethod>>}

WellFormed(g) ==
    /\ ValidRequestLine(g)
    /\ \A i \in 1..Len(g.hdr) : IsComment(g.hdr[i]) \/ HasColon(g.hdr[i])

IsSuffix(v, l) == Len(v) <= Len(l) /\ v = SubSeq(l, Len(l) - Len(v) + 1, Len(l))

\* C13: a well-formed content with N header lines, comments of the header
\* section not counted, parses to exactly N headers in the order of the
\* lines; each header has the name and a value of its own line, so headers
\* of the same name are all kept.
C13_HeadersKeptInOrder ==
    (Parsed /\ WellFormed(arg.gen)) =>
        LET hs == HeaderLinesOf(arg.gen) IN
        /\ res.ok
        /\ Len(res.spec.headers) = Len(hs)
        /\ \A i \in 1..Len(hs) :
              /\ i <= Len(res.spec.headers)
              /\ res.spec.headers[i].name = Trim(SubSeq(hs[i], 1, FirstColon(hs[i]) - 1))
              /\ res.spec.headers[i].value # <<>>
              /\ IsSuffix(res.spec.headers[i].value, Trim(hs[i]))

\* Two header lines of the same name: both headers are there, in order, with
\* their own values.
C13_Witness ==
    /\ Parsed
    /\ arg.gen.hdr = <<HeaderColonInValue, HeaderSpaced>>
    /\ res.ok
    /\ res.spec.headers = <<[name |-> <<"A">>, value |-> <<"2", ":", "4">>],
                            [name |-> <<"A">>, value |-> <<"1">>]>>

\* C14 as stated: a header line is split at its first ':' only: the name is
\* the trimmed text before it and the value the trimmed text after that one
\* colon, further colons included.
C14_SplitAtFirstColonOnly ==
    (Parsed /\ res.ok) =>
        LET hs == HeaderLinesOf(arg.gen) IN
        /\ Len(res.spec.headers) = Len(hs)
        /\ \A i \in 1..Len(hs) :
              LET c == FirstColon(hs[i]) IN
              /\ res.spec.headers[i].name = Trim(SubSeq(hs[i], 1, c - 1))
              /\ res.spec.headers[i].value = Trim(SubSeq(hs[i], c + 1, Len(hs[i])))

\* The same for the lines in which no ':' follows the first one at once.
SplitAtFirstColonUnlessColonFollows ==
    (Parsed /\ res.ok) =>
        LET hs == HeaderLinesOf(arg.gen) IN
        /\ Len(res.spec.headers) = Len(hs)
        /\ \A i \in 1..Len(hs) :
              LET c == FirstColon(hs[i]) IN
              /\ res.spec.headers[i].name = Trim(SubSeq(hs[i], 1, c - 1))
              /\ (c = Len(hs[i]) \/ hs[i][c + 1] # ":")
                    => res.spec.headers[i].value
                         = Trim(SubSeq(hs[i], c + 1, Len(hs[i])))

\* C15 as stated: parsing fails or yields a non-empty method and a non-empty
\* URL; a request line with one token fails with the error of the missing
\* URL.
C15_MethodAndUrlNonEmptyOrFailure ==
    Parsed =>
        /\ res.ok => res.spec.method # <<>> /\ res.spec.url # <<>>
        /\ arg.gen.req = <<ReqOneToken>>
              => ~res.ok /\ res.err = <<"Missing URL">>

\* The same for the contents whose request line does not start with a BOM
\* that is not the first character of the content.
MethodAndUrlNonEmptyUnlessBomToken ==
    (Parsed /\ ~(arg.gen.pre # <<>> /\ arg.gen.req = <<ReqBomToken>>)) =>
        /\ res.ok => res.spec.method # <<>> /\ res.spec.url # <<>>
        /\ arg.gen.req = <<ReqOneToken>>
              => ~res.ok /\ res.err = <<"Missing URL">>

\* The first line of the header section that is not a comment and has no ':'.
FirstInvalid(g) ==
    LET hs == HeaderLinesOf(g) IN
    hs[CHOOSE i \in 1..Len(hs) :
          ~HasColon(hs[i]) /\ \A j \in 1..(i - 1) : HasColon(hs[j])]

\* C16: after a request line that parses, a line of the header section that
\* is not a comment and has no ':' makes parsing fail with an error that
\* carries the line as it is in the content; no request spec is produced.
C16_InvalidHeaderLineFails ==
    (/\ Parsed
     /\ ValidRequestLine(arg.gen)
     /\ \E i \in 1..Len(arg.gen.hdr) :
           ~IsComment(arg.gen.hdr[i]) /\ ~HasColon(arg.gen.hdr[i]))
        => /\ ~res.ok
           /\ res.err = <<"Invalid header line: ", FirstInvalid(arg.gen)>>
           /\ res.spec = <<>>

\* A header line is followed by a line without ':'.
C16_Witness ==
    /\ Parsed
    /\ ValidRequestLine(arg.gen)
    /\ arg.gen.hdr = <<HeaderSpaced, HeaderNoColon>>
    /\ ~res.ok
    /\ res.err = <<"Invalid header line: ", HeaderNoColon>>

\* The text of the content after the blank line that ends the header section.
BodyText(g) == TextOf(g.body, g.eol, g.final)

HasBodyLines(g) == g.sep /\ g.body # <<>>

\* C17 as stated: the body is the text of the input after the first blank
\* line, byte for byte.
C17_BodyByteForByte ==
    (Parsed /\ res.ok /\ HasBodyLines(arg.gen))
        => res.spec.body = Some(BodyText(arg.gen))

\* Where line k of the body starts in the joined body.
RECURSIVE StartOf(_, _)
StartOf(ls, k) == IF k = 1 THEN 1 ELSE StartOf(ls, k - 1) + Len(ls[k - 1]) + 1

\* C17 amended: every line after the first blank line, blank lines and lines
\* starting with '#' included, is kept with its characters, and the body is
\* those lines joined by "\n": the ending of a line, "\n" or "\r\n", is not
\* part of it, and the ending of the last line is dropped.
C17_BodyIsLinesJoined ==
    (Parsed /\ res.ok /\ HasBodyLines(arg.gen)) =>
        LET ls == arg.gen.body
            n == Len(ls)
        IN  /\ Len(res.spec.body) = 1
            /\ LET b == res.spec.body[1] IN
               /\ Len(b) = StartOf(ls, n) + Len(ls[n]) - 1
               /\ \A k \in 1..n :
                     /\ SubSeq(b, StartOf(ls, k), StartOf(ls, k) + Len(ls[k]) - 1) = ls[k]
                     /\ k > 1 => b[StartOf(ls, k) - 1] = NL

\* A blank line and a line starting with '#' follow the blank line, with
\* "\r\n" endings, the last one included.
C17_Witness ==
    /\ Parsed
    /\ res.ok
    /\ arg.gen.sep
    /\ arg.gen.body = <<BlankLine, <<"#", "b", " ">>>>
    /\ arg.gen.eol = <<CR, NL>>
    /\ arg.gen.final
    /\ res.spec.body = Some(<<NL, "#", "b", " ">>)

\* C18: when nothing, or only the blank line, follows the header section,
\* the body is absent, not empty; a content with only a request line has no
\* headers and no body.
C18_NoBodyIsAbsent ==
    (Parsed /\ ValidRequestLine(arg.gen)) =>
        /\ (res.ok /\ ~HasBodyLines(arg.gen)) => res.spec.body = None
        /\ (arg.gen.hdr = <<>> /\ ~arg.gen.sep)
              => res.ok /\ res.spec.headers = <<>> /\ res.spec.body = None

\* Only the blank line follows the headers.
C18_Witness ==
    /\ Parsed
    /\ res.ok
    /\ arg.gen.hdr = <<HeaderSpaced>>
    /\ arg.gen.sep
    /\ arg.gen.body = <<>>
    /\ res.spec.body = None

-----------------------------------------------------------------------------
(* Spec: one run of main().  The run is split at its await points: a       *)
(* request is sent, completes or fails, and main() goes on from the result *)
(* to its next request or to its end.  Reading, parsing and building a     *)
(* template that exists (parse_http_spec, build_request_from_spec) either  *)
(* succeeds or fails; the clipboard copy and the debug log only print.     *)

LastfmTemplate == "lastfm_top_tracks.http"
DiscordGetTemplate == "discord_get_me.http"
DiscordPatchTemplate == "discord_patch_bio.http"
TemplateNames == {LastfmTemplate, DiscordGetTemplate, DiscordPatchTemplate}

\* config::http_dir() and the legacy directory ./http
TemplatePaths == [dir : {"config_http", "legacy"}, name : TemplateNames]

LastfmRequest == "lastfm_top_tracks"
DiscordGetRequest == "discord_get_me"
DiscordPatchRequest == "discord_patch_bio"

RunPatterns == {<<"/", "a", NL, "/">>, <<"+">>, <<"b">>}
RunBios == {<<"a", NL>>, <<"b">>}
RunOutputs == {<<"a">>, <<"b">>}

Options ==
    [mode : {"run", "generate_config", "generate_http"},
     credentials : {"ok", "no_api_key", "no_username"},
     select : BOOLEAN,
     update_discord : BOOLEAN,
     discord_dry_run : BOOLEAN,
     has_token : BOOLEAN,
     discord_bio_regex : RunPatterns]

Init ==
    /\ FnIdle
    /\ pc = "start"
    /\ opts \in Options
    /\ files \in SUBSET TemplatePaths
    /\ requests = <<>>
    /\ inflight = {}
    /\ response = "none"
    /\ current_bio = None
    /\ new_bio = None
    /\ output = None
    /\ stdout = <<>>
    /\ stderr = <<>>
    /\ exit = "running"

\* lastfm.rs 38-40: only the legacy path is looked at.
LastfmTemplateExists(fs) ==
    [dir |-> "legacy", name |-> LastfmTemplate] \in fs

\* discord.rs 15-19, 45-49: the config http directory, else the legacy path.
DiscordTemplateExists(fs, name) ==
    \/ [dir |-> "config_http", name |-> name] \in fs
    \/ [dir |-> "legacy", name |-> name] \in fs

\* Discord operations as soon as a token is there.
DoDiscordWhenToken(o) == o.update_discord \/ o.discord_dry_run \/ o.has_token

\* main.rs 458
DoDiscord(o) == o.update_discord \/ o.discord_dry_run

\* What main() does from one await to the next: it ends with an exit status,
\* or sends a request; out and err are what it prints on the way.
End(status, out, err) ==
    [pc |-> "done", exit |-> status, send |-> {}, out |-> out, err |-> err]

Send(kind, to, out, err) ==
    [pc |-> to, exit |-> "running", send |-> {kind}, out |-> out, err |-> err]

Apply(n) ==
    /\ pc' = n.pc
    /\ exit' = n.exit
    /\ requests' = IF n.send = {} THEN requests
                   ELSE Append(requests, CHOOSE k \in n.send : TRUE)
    /\ inflight' = inflight \cup n.send
    /\ stdout' = stdout \o n.out
    /\ stderr' = stderr \o n.err

\* main.rs 103-121
MainGenerateConfig ==
    /\ pc = "start"
    /\ opts.mode = "generate_config"
    /\ \E written \in BOOLEAN :
          Apply(IF written THEN End("ok", <<"wrote_config">>, <<>>)
                ELSE End("exit1", <<>>, <<"write_failed">>))
    /\ UNCHANGED <<fnVars, opts, files, response, current_bio, new_bio, output>>

\* main.rs 124-192, for --generate-http without a value (ALL)
MainGenerateHttp ==
    /\ pc = "start"
    /\ opts.mode = "generate_http"
    /\ \E written \in BOOLEAN :
          /\ Apply(IF written THEN End("ok", <<"generated_http">>, <<>>)
                   ELSE End("exit1", <<>>, <<"write_failed">>))
          /\ files' = IF written
                      THEN files \cup [dir : {"config_http"}, name : TemplateNames]
                      ELSE files
    /\ UNCHANGED <<fnVars, opts, response, current_bio, new_bio, output>>

\* main.rs 278-298
MainMissingCredentials ==
    /\ pc = "start"
    /\ opts.mode = "run"
    /\ opts.credentials # "ok"
    /\ Apply(End("exit2", <<>>, <<opts.credentials>>))
    /\ UNCHANGED <<fnVars, opts, files, response, current_bio, new_bio, output>>

\* main.rs 384-397 with lastfm.rs 38-57, up to the await of the request
MainFetchTopTracks ==
    /\ pc = "start"
    /\ opts.mode = "run"
    /\ opts.credentials = "ok"
    /\ IF LastfmTemplateExists(files)
       THEN \E built \in BOOLEAN :
               Apply(IF built
                     THEN Send(LastfmRequest, "await_lastfm", <<>>, <<>>)
                     ELSE End("error", <<>>, <<"fetch_failed">>))
       ELSE Apply(End("ok", <<"no_tracks">>, <<>>))
    /\ UNCHANGED <<fnVars, opts, files, response, current_bio, new_bio, output>>

\* net.rs 62-85: the awaited request completes or fails, once.
Completed(kind, results, to) ==
    /\ kind \in inflight
    /\ \E r \in results :
          /\ response' = r
          /\ inflight' = inflight \ {kind}
          /\ pc' = to
    /\ UNCHANGED <<fnVars, opts, files, requests, current_bio, new_bio, output,
                   stdout, stderr, exit>>

LastfmCompleted ==
    /\ pc = "await_lastfm"
    /\ Completed(LastfmRequest,
                 {"transport_error", "http_status", "error_body", "bad_json",
                  "no_tracks", "tracks"},
                 "after_lastfm")

\* main.rs 457-461, 493-497 with discord.rs 15-36, up to the await
DiscordFetch(o, fs, built) ==
    IF ~DoDiscord(o) THEN End("ok", <<"bio_line">>, <<>>)
    ELSE IF ~o.has_token THEN End("ok", <<"bio_line">>, <<"no_token">>)
    ELSE IF ~DiscordTemplateExists(fs, DiscordGetTemplate)
         THEN End("ok", <<"bio_line">>, <<"bio_fetch_failed", "template_missing">>)
    ELSE IF ~built THEN End("ok", <<"bio_line">>, <<"bio_fetch_failed">>)
    ELSE Send(DiscordGetRequest, "await_discord_get", <<"bio_line">>, <<>>)

\* lastfm.rs 60-71 and main.rs 392-461: from the Last.fm result to the
\* request for the current bio
MainAfterFetch ==
    /\ pc = "after_lastfm"
    /\ IF response \in {"transport_error", "http_status", "error_body", "bad_json"}
       THEN Apply(End("error", <<>>, <<"fetch_failed">>)) /\ output' = output
       ELSE IF response = "no_tracks"
       THEN Apply(End("ok", <<"no_tracks">>, <<>>)) /\ output' = output
       ELSE \E picked \in BOOLEAN, rendered \in RunOutputs, built \in BOOLEAN :
               IF ~opts.select /\ ~picked
               THEN Apply(End("ok", <<>>, <<"none_selected">>)) /\ output' = output
               ELSE /\ output' = Some(rendered)
                    /\ Apply(DiscordFetch(opts, files, built))
    /\ UNCHANGED <<fnVars, opts, files, response, current_bio, new_bio>>

DiscordGetCompleted ==
    /\ pc = "await_discord_get"
    /\ Completed(DiscordGetRequest,
                 {"transport_error", "http_status", "bad_json", "bio"},
                 "after_discord_get")

\* main.rs 466-469
InvalidPatternOutcomeFatal == End("error", <<>>, <<"invalid_regex">>)

InvalidPatternOutcome == End("ok", <<>>, <<"invalid_regex">>)

\* main.rs 489-491
NoMatchOutcomeSendsAnyway ==
    Send(DiscordPatchRequest, "await_discord_patch", <<>>, <<"no_match">>)

NoMatchOutcome == End("ok", <<>>, <<"no_match">>)

\* What update_bio does up to its await: discord.rs 45-62.
UpdateBio(fs, built) ==
    IF ~DiscordTemplateExists(fs, DiscordPatchTemplate)
    THEN End("ok", <<>>, <<"update_failed", "template_missing">>)
    ELSE IF ~built THEN End("ok", <<>>, <<"update_failed">>)
    ELSE Send(DiscordPatchRequest, "await_discord_patch", <<>>, <<>>)

\* An outcome that looks at update-discord before dry-run.
ReplacedOutcomeUpdateFirst(o, fs, bio, new, built) ==
    IF o.update_discord
    THEN IF new = bio THEN End("ok", <<"up_to_date">>, <<>>)
         ELSE UpdateBio(fs, built)
    ELSE IF o.discord_dry_run THEN End("ok", <<"dry_run">>, <<>>)
    ELSE End("ok", <<>>, <<>>)

\* An outcome that writes a bio equal to the fetched one.
ReplacedOutcomeAlwaysSends(o, fs, bio, new, built) ==
    IF o.discord_dry_run THEN End("ok", <<"dry_run">>, <<>>)
    ELSE IF o.update_discord THEN UpdateBio(fs, built)
    ELSE End("ok", <<>>, <<>>)

\* main.rs 476-488, up to the await of update_bio
ReplacedOutcome(o, fs, bio, new, built) ==
    IF o.discord_dry_run THEN End("ok", <<"dry_run">>, <<>>)
    ELSE IF o.update_discord
    THEN IF new = bio THEN End("ok", <<"up_to_date">>, <<>>)
         ELSE UpdateBio(fs, built)
    ELSE End("ok", <<>>, <<>>)

\* discord.rs 37-40 and main.rs 462-493: from the fetched profile to the
\* request that writes the new bio
MainAfterBio ==
    /\ pc = "after_discord_get"
    /\ IF response # "bio"
       THEN /\ Apply(End("ok", <<>>, <<"bio_fetch_failed">>))
            /\ UNCHANGED <<current_bio, new_bio>>
       ELSE \E bio \in RunBios, built \in BOOLEAN :
               LET p == PatchBio(bio, opts.discord_bio_regex, output[1]) IN
               /\ current_bio' = Some(bio)
               /\ new_bio' = IF p.kind = "Replaced" THEN Some(p.text) ELSE new_bio
               /\ Apply(CASE p.kind = "InvalidPattern" -> InvalidPatternOutcome
                          [] p.kind = "NoMatch" -> NoMatchOutcome
                          [] OTHER -> ReplacedOutcome(opts, files, bio, p.text, built))
    /\ UNCHANGED <<fnVars, opts, files, response, output>>

DiscordPatchCompleted ==
    /\ pc = "await_discord_patch"
    /\ Completed(DiscordPatchRequest,
                 {"transport_error", "http_status", "ok"},
                 "after_discord_patch")

\* main.rs 483-486, 500
MainAfterPatchRetries ==
    /\ pc = "after_discord_patch"
    /\ Apply(IF response = "ok" THEN End("ok", <<"updated">>, <<>>)
             ELSE Send(DiscordPatchRequest, "await_discord_patch", <<>>,
                       <<"update_failed">>))
    /\ UNCHANGED <<fnVars, opts, files, response, current_bio, new_bio, output>>

MainAfterPatch ==
    /\ pc = "after_discord_patch"
    /\ Apply(IF response = "ok" THEN End("ok", <<"updated">>, <<>>)
             ELSE End("ok", <<>>, <<"update_failed">>))
    /\ UNCHANGED <<fnVars, opts, files, response, current_bio, new_bio, output>>

\* The next start of the program after --generate-http: a run with the
\* templates that are on disk now.
MainNextRun ==
    /\ pc = "done"
    /\ opts.mode = "generate_http"
    /\ exit = "ok"
    /\ pc' = "start"
    /\ opts' \in {o \in Options : o.mode = "run"}
    /\ requests' = <<>>
    /\ stdout' = <<>>
    /\ stderr' = <<>>
    /\ exit' = "running"
    /\ UNCHANGED <<fnVars, files, inflight, response, current_bio, new_bio, output>>

Next ==
    \/ MainGenerateConfig
    \/ MainGenerateHttp
    \/ MainMissingCredentials
    \/ MainFetchTopTracks
    \/ LastfmCompleted
    \/ MainAfterFetch
    \/ DiscordGetCompleted
    \/ MainAfterBio
    \/ DiscordPatchCompleted
    \/ MainAfterPatch
    \/ MainNextRun

Spec == Init /\ [][Next]_vars

Range(q) == {q[i] : i \in 1..Len(q)}

\* C1 as stated: at most two requests in a run, at most one read and then at
\* most one write, never two at a time.
C1_AtMostTwoRequests ==
    /\ Len(requests) <= 2
    /\ Cardinality({i \in 1..Len(requests) : requests[i] # DiscordPatchRequest}) <= 1
    /\ Cardinality({i \in 1..Len(requests) : requests[i] = DiscordPatchRequest}) <= 1
    /\ \A i \in 1..Len(requests) :
          requests[i] = DiscordPatchRequest => i = Len(requests)
    /\ Cardinality(inflight) <= 1

\* C1 amended: at most three requests in a run: at most one Last.fm read,
\* then at most one Discord profile read, then at most one write, in that
\* order, each completed or failed before the next is sent.
C1_AtMostThreeRequestsInOrder ==
    /\ Len(requests) <= 3
    /\ requests = SubSeq(<<LastfmRequest, DiscordGetRequest, DiscordPatchRequest>>,
                         1, Len(requests))
    /\ Cardinality(inflight) <= 1
    /\ inflight # {} => inflight = {requests[Len(requests)]}

\* A run that sent all three requests and ended.
C1_Witness ==
    /\ pc = "done"
    /\ requests = <<LastfmRequest, DiscordGetRequest, DiscordPatchRequest>>
    /\ inflight = {}

RunRegex == RegexNew(NormalizePattern(opts.discord_bio_regex))

\* The bio was fetched and the compiled pattern has no match in it.
NoMatchInBio ==
    /\ current_bio # None
    /\ RunRegex.ok
    /\ \A a \in Offsets(current_bio[1]), b \in Offsets(current_bio[1]) :
          a <= b => ~InLang(RunRegex.items, Slice(current_bio[1], a, b))

\* C4: when the pattern has no match in the fetched bio, no new bio is made,
\* no write request is sent, and the run ends normally after reporting it.
C4_NoMatchIsNotFatal ==
    NoMatchInBio =>
        /\ DiscordPatchRequest \notin Range(requests)
        /\ new_bio = None
        /\ pc = "done"
        /\ exit = "ok"
        /\ "no_match" \in Range(stderr)

\* No match in a run that would otherwise have written: update-discord on,
\* dry-run off, the patch template present.
C4_Witness ==
    /\ NoMatchInBio
    /\ pc = "done"
    /\ opts.update_discord
    /\ ~opts.discord_dry_run
    /\ DiscordTemplateExists(files, DiscordPatchTemplate)

\* The bio was fetched and the normalized pattern does not compile.
InvalidPatternCase == current_bio # None /\ ~RunRegex.ok

\* C5: when the normalized pattern does not compile, no write request is
\* sent, the rendered output was printed before, and the run ends normally
\* after reporting the pattern.
C5_InvalidPatternAbortsOnlyUpdate ==
    InvalidPatternCase =>
        /\ DiscordPatchRequest \notin Range(requests)
        /\ new_bio = None
        /\ output # None
        /\ "bio_line" \in Range(stdout)
        /\ "invalid_regex" \in Range(stderr)
        /\ pc = "done"
        /\ exit = "ok"

\* An invalid pattern in a run that would otherwise have written.
C5_Witness ==
    /\ InvalidPatternCase
    /\ pc = "done"
    /\ opts.update_discord
    /\ ~opts.discord_dry_run
    /\ DiscordTemplateExists(files, DiscordPatchTemplate)
    /\ requests = <<LastfmRequest, DiscordGetRequest>>

\* C23: when neither update-discord nor discord-dry-run is enabled, no
\* Discord request, read or write, is sent in the run, also when a token is
\* available.
C23_NoDiscordRequestUnlessRequested ==
    (~opts.update_discord /\ ~opts.discord_dry_run) =>
        /\ DiscordGetRequest \notin Range(requests)
        /\ DiscordPatchRequest \notin Range(requests)
        /\ inflight \subseteq {LastfmRequest}

\* A run with a token and both templates that printed its bio line and ended
\* after the Last.fm request alone.
C23_Witness ==
    /\ pc = "done"
    /\ opts.mode = "run"
    /\ ~opts.update_discord /\ ~opts.discord_dry_run
    /\ opts.has_token
    /\ DiscordTemplateExists(files, DiscordGetTemplate)
    /\ DiscordTemplateExists(files, DiscordPatchTemplate)
    /\ "bio_line" \in Range(stdout)
    /\ requests = <<LastfmRequest>>

ConfigHttpTemplates == [dir : {"config_http"}, name : TemplateNames]

\* C27 as stated: with the three templates in the http folder of the config
\* directory, as --generate-http leaves them, a run does not treat a
\* template as missing: it does not end without a Last.fm request as if
\* there were no tracks, and it does not report a missing Discord template.
C27_GeneratedTemplatesAreResolved ==
    (opts # <<>> /\ opts.mode = "run" /\ ConfigHttpTemplates \subseteq files) =>
        /\ ~(pc = "done" /\ requests = <<>> /\ "no_tracks" \in Range(stdout))
        /\ "template_missing" \notin Range(stderr)

\* The same for the two Discord templates alone.
DiscordTemplatesAreResolved ==
    (opts # <<>> /\ opts.mode = "run" /\ ConfigHttpTemplates \subseteq files) =>
        "template_missing" \notin Range(stderr)

\* C28: a write request is sent only when a token is available, the profile
\* was read, the pattern compiled and matched, dry-run is off, update-discord
\* is on and the patched bio differs from the fetched one; a patched bio
\* equal to the fetched one is not written; a run that sent the write ends
\* normally, whatever became of the write.
C28_WriteOnlyWhenAllHold ==
    /\ DiscordPatchRequest \in Range(requests) =>
          /\ opts.has_token
          /\ DiscordGetRequest \in Range(requests)
          /\ current_bio # None
          /\ RunRegex.ok
          /\ ~NoMatchInBio
          /\ new_bio # None
          /\ ~opts.discord_dry_run
          /\ opts.update_discord
          /\ new_bio # current_bio
    /\ (new_bio # None /\ new_bio = current_bio)
          => DiscordPatchRequest \notin Range(requests)
    /\ (pc = "done" /\ DiscordPatchRequest \in Range(requests)) => exit = "ok"

\* The write was sent and failed, and the run ended normally.
C28_Witness ==
    /\ pc = "done"
    /\ DiscordPatchRequest \in Range(requests)
    /\ response = "http_status"
    /\ "update_failed" \in Range(stderr)
    /\ exit = "ok"

-----------------------------------------------------------------------------
(* SpecSend: one call of net.rs send_with_debug, split at rb.send().await. *)
(* The network either fails the request or answers it with a status and a  *)
(* body, which can be read or not.  The lines of the debug log are kept by  *)
(* their kind.                                                             *)

Statuses == {200, 204, 301, 404, 500}
ResponseBodies == {<<>>, <<"e">>}
SendRequests == {LastfmRequest, DiscordGetRequest, DiscordPatchRequest}

\* StatusCode::is_success
IsSuccess(status) == status >= 200 /\ status < 300

UnreadableBody == <<"<failed to read error body>">>

\* resp.text().await.unwrap_or_else(..)
ErrorBodyText(resp) ==
    IF resp.readable THEN resp.body ELSE UnreadableBody

NoResponse == [status |-> 0, body |-> <<>>, readable |-> FALSE]

\* A line of the debug log.
LogLine(kind, status, text) == [kind |-> kind, status |-> status, text |-> text]

\* The results of the call.  An error is what its message holds: the status
\* code, and the text of the body when there is one in it.
OkResponse == [ok |-> TRUE, kind |-> "response", status |-> 0, body |-> None]
TransportError == [ok |-> FALSE, kind |-> "transport", status |-> 0, body |-> None]
StatusError(status) ==
    [ok |-> FALSE, kind |-> "status", status |-> status, body |-> None]

InitSend ==
    /\ stage = "call"
    /\ arg \in [debug : BOOLEAN, request : SendRequests]
    /\ res = [sent |-> <<>>, network |-> "none", response |-> NoResponse,
              result |-> None, log |-> <<>>]
    /\ RunIdle

\* The debug lines of the request, then rb.send().
SendWithDebugSend ==
    /\ stage = "call"
    /\ stage' = "awaiting"
    /\ res' = [res EXCEPT
                 !.sent = Append(@, arg.request),
                 !.log = IF arg.debug THEN Append(@, LogLine("request", 0, <<arg.request>>))
                         ELSE @]
    /\ UNCHANGED <<arg, runVars>>

\* A failure of the network that sends the request once more.
SendFailedRetries ==
    /\ stage = "awaiting"
    /\ IF Len(res.sent) < 2
       THEN /\ stage' = "awaiting"
            /\ res' = [res EXCEPT !.network = "failed",
                                  !.sent = Append(@, arg.request)]
       ELSE /\ stage' = "returned"
            /\ res' = [res EXCEPT !.network = "failed",
                                  !.result = Some(TransportError)]
    /\ UNCHANGED <<arg, runVars>>

\* rb.send() fails: the error is logged under debug and returned by `?`.
SendFailed ==
    /\ stage = "awaiting"
    /\ stage' = "returned"
    /\ res' = [res EXCEPT
                 !.network = "failed",
                 !.result = Some(TransportError),
                 !.log = IF arg.debug
                         THEN Append(@, LogLine("send error", 0, <<>>))
                         ELSE @]
    /\ UNCHANGED <<arg, runVars>>

\* rb.send() yields a response: Ok(resp) for a status of success, otherwise
\* the body is read and the error of the status is returned.
ResponseReceived ==
    /\ stage = "awaiting"
    /\ stage' = "returned"
    /\ \E status \in Statuses, body \in ResponseBodies, readable \in BOOLEAN :
          LET resp == [status |-> status, body |-> body, readable |-> readable]
              log1 == IF arg.debug
                      THEN Append(res.log, LogLine("response", status, <<>>))
                      ELSE res.log
          IN  res' = [res EXCEPT
                        !.network = "responded",
                        !.response = resp,
                        !.result =
                            IF IsSuccess(status) THEN Some(OkResponse)
                            ELSE Some(StatusError(status)),
                        !.log =
                            IF ~IsSuccess(status) /\ arg.debug
                            THEN Append(log1, LogLine("error status", status,
                                                      ErrorBodyText(resp)))
                            ELSE log1]
    /\ UNCHANGED <<arg, runVars>>

NextSend ==
    \/ SendWithDebugSend
    \/ SendFailed
    \/ ResponseReceived

SpecSend == InitSend /\ [][NextSend]_vars

FailedStatus ==
    stage = "returned" /\ res.network = "responded" /\ ~IsSuccess(res.response.status)

\* C19 as stated: for a status that is not a success the call fails with an
\* error that carries the status code and the text of the response body, or
\* the placeholder when the body cannot be read.
C19_ErrorCarriesStatusAndBody ==
    FailedStatus =>
        /\ ~res.result[1].ok
        /\ res.result[1].status = res.response.status
        /\ res.result[1].body = Some(ErrorBodyText(res.response))

\* What holds of it: the error carries the status code only; the body, or
\* its placeholder, is written to the debug log and nowhere else.
ErrorCarriesStatusBodyOnlyLogged ==
    FailedStatus =>
        /\ res.result = Some(StatusError(res.response.status))
        /\ arg.debug <=> LogLine("error status", res.response.status,
                                  ErrorBodyText(res.response)) \in Range(res.log)

\* C20: a call sends its request at most once; when the network fails it,
\* the call returns the error of the transport at once and sends nothing
\* more.
C20_SentAtMostOnceNoRetry ==
    /\ Len(res.sent) <= 1
    /\ stage = "call" => res.sent = <<>>
    /\ (stage = "returned" /\ res.network = "failed")
          => /\ res.result = Some(TransportError)
             /\ res.sent = <<arg.request>>

\* The network failed the request and the call has returned.
C20_Witness ==
    /\ stage = "returned"
    /\ res.network = "failed"
    /\ res.sent = <<arg.request>>
    /\ res.result = Some(TransportError)

-----------------------------------------------------------------------------
(* net.rs: redact_url and redact_header, and the debug lines of the        *)
(* request in send_with_debug.  The redaction marker is one character.     *)

Redacted == "<redacted>"
NonUtf8 == "<non-utf8>"

KeyApiKey == <<"a", "p", "i", "_", "k", "e", "y">>
KeyApikey == <<"a", "p", "i", "k", "e", "y">>
KeyToken == <<"t", "o", "k", "e", "n">>
KeyAuth == <<"a", "u", "t", "h">>
KeyAuthorization == <<"a", "u", "t", "h", "o", "r", "i", "z", "a", "t", "i", "o", "n">>

\* The keys of redact_url, in the order of its loop.
RedactKeys == <<KeyApiKey, KeyApikey, KeyToken, KeyAuth, KeyAuthorization>>

\* str::find(pat): the 1-based index of the first occurrence, 0 when none.
FindStr(s, pat) ==
    LET starts == {i \in 1..(Len(s) - Len(pat) + 1) :
                      SubSeq(s, i, i + Len(pat) - 1) = pat}
    IN  IF starts = {} THEN 0
        ELSE CHOOSE i \in starts : \A j \in starts : i <= j

\* One step of the loop of redact_url: the value after the first "key=" is
\* replaced up to the next '&' or the end.
RedactKey(out, key) ==
    LET idx == FindStr(out, key \o <<"=">>) IN
    IF idx = 0 THEN out
    ELSE LET start == idx + Len(key) + 1
             rest == SubSeq(out, start, Len(out))
             amp == FindChar(rest, "&")
             end == IF amp = 0 THEN Len(out) + 1 ELSE start + amp - 1
         IN  SubSeq(out, 1, start - 1) \o <<Redacted>> \o SubSeq(out, end, Len(out))

RECURSIVE RedactUrlFrom(_, _)
RedactUrlFrom(out, k) ==
    IF k > Len(RedactKeys) THEN out
    ELSE RedactUrlFrom(RedactKey(out, RedactKeys[k]), k + 1)

RedactUrl(url) == RedactUrlFrom(url, 1)

UpperLetters == <<"A", "C", "E", "H", "I", "K", "N", "O", "R", "T", "U", "X", "Z">>
LowerLetters == <<"a", "c", "e", "h", "i", "k", "n", "o", "r", "t", "u", "x", "z">>

\* char::to_ascii_lowercase
CharToAsciiLowercase(c) ==
    IF \E i \in 1..Len(UpperLetters) : UpperLetters[i] = c
    THEN LowerLetters[CHOOSE i \in 1..Len(UpperLetters) : UpperLetters[i] = c]
    ELSE c

ToAsciiLowercase(t) == [i \in 1..Len(t) |-> CharToAsciiLowercase(t[i])]

NameAuthorization == <<"a", "u", "t", "h", "o", "r", "i", "z", "a", "t", "i", "o", "n">>
NameCookie == <<"c", "o", "o", "k", "i", "e">>

\* A redaction of the Authorization header alone.
RedactHeaderAuthorizationOnly(name, value) ==
    IF ToAsciiLowercase(name) = NameAuthorization THEN <<Redacted>> ELSE value

RedactHeader(name, value) ==
    LET lname == ToAsciiLowercase(name) IN
    IF lname = NameAuthorization \/ lname = NameCookie THEN <<Redacted>> ELSE value

\* The characters that are not visible ASCII.
NonAscii == {"U+00E9"}

\* HeaderValue::to_str().unwrap_or("<non-utf8>")
ValueToStr(value) ==
    IF \E i \in 1..Len(value) : value[i] \in NonAscii THEN <<NonUtf8>> ELSE value

\* The debug line of a header: its name and its redacted value.
HeaderLine(h) ==
    [name |-> ToAsciiLowercase(h.name),
     value |-> RedactHeader(ToAsciiLowercase(h.name), ValueToStr(h.value))]

-----------------------------------------------------------------------------
(* SpecRedactUrl: the URL of the debug line of the request.  A URL is      *)
(* "x?" followed by up to MaxParams parameters name=value joined by '&'.   *)

UrlBase == <<"x", "?">>
ParamNames ==
    {KeyApiKey, KeyApikey, KeyToken, KeyAuth, KeyAuthorization,
     <<"u", "s", "e", "r">>, <<"m", "y", "t", "o", "k", "e", "n">>}
ParamValues == {<<"S">>, <<>>}
Params == [name : ParamNames, value : ParamValues]

RECURSIVE JoinParams(_)
JoinParams(ps) ==
    IF ps = <<>> THEN <<>>
    ELSE Head(ps) \o (IF Len(ps) = 1 THEN <<>> ELSE <<"&">> \o JoinParams(Tail(ps)))

UrlOf(ps) ==
    UrlBase \o JoinParams([i \in 1..Len(ps) |-> ps[i].name \o <<"=">> \o ps[i].value])

InitRedactUrl ==
    /\ stage = "url"
    /\ \E ps \in SeqsUpTo(Params, MaxParams) : arg = [params |-> ps, url |-> UrlOf(ps)]
    /\ res = <<>>
    /\ RunIdle

RedactUrlApply ==
    /\ stage = "url"
    /\ stage' = "url_logged"
    /\ res' = [url |-> RedactUrl(arg.url)]
    /\ UNCHANGED <<arg, runVars>>

NextRedactUrl == RedactUrlApply

SpecRedactUrl == InitRedactUrl /\ [][NextRedactUrl]_vars

SecretKeys == {RedactKeys[k] : k \in 1..Len(RedactKeys)}

\* The URL in which the value of every parameter with a listed key, and of
\* no other, is the marker.
EveryKeyRedacted(ps) ==
    UrlBase \o JoinParams([i \in 1..Len(ps) |->
        ps[i].name \o <<"=">>
        \o (IF ps[i].name \in SecretKeys THEN <<Redacted>> ELSE ps[i].value)])

\* C21 as stated: in the logged URL the value of every parameter whose key
\* is api_key, apikey, token, auth or authorization is the marker, at every
\* occurrence, and the rest of the URL is unchanged.
C21_EveryListedKeyRedacted ==
    stage = "url_logged" => res.url = EveryKeyRedacted(arg.params)

\* The same for the URLs in which no listed key occurs twice and no other
\* parameter name ends with a listed key.
RedactedWhenEachKeyOccursOnce ==
    (/\ stage = "url_logged"
     /\ \A i \in 1..Len(arg.params), j \in 1..Len(arg.params) :
           (i # j /\ arg.params[i].name \in SecretKeys)
               => arg.params[i].name # arg.params[j].name
     /\ \A i \in 1..Len(arg.params) : arg.params[i].name # <<"m", "y", "t", "o", "k", "e", "n">>)
        => res.url = EveryKeyRedacted(arg.params)

-----------------------------------------------------------------------------
(* SpecRedactHeader: the debug lines of the headers of the request, up to  *)
(* MaxHeaders headers.                                                     *)

SensitiveHeaderNames ==
    {<<"A", "u", "t", "h", "o", "r", "i", "z", "a", "t", "i", "o", "n">>, <<"A", "U", "T", "H", "O", "R", "I", "Z", "A", "T", "I", "O", "N">>, <<"c", "o", "o", "k", "i", "e">>, <<"C", "o", "o", "k", "i", "e">>}
OtherHeaderNames == {<<"X", "-", "A">>, <<"C", "o", "o", "k">>}
LoggedHeaderValues == {<<"s">>, <<"s", "U+00E9">>}
LoggedHeaders ==
    [name : SensitiveHeaderNames \cup OtherHeaderNames, value : LoggedHeaderValues]

InitRedactHeader ==
    /\ stage = "headers"
    /\ arg \in [headers : SeqsUpTo(LoggedHeaders, MaxHeaders)]
    /\ res = <<>>
    /\ RunIdle

RedactHeaderApply ==
    /\ stage = "headers"
    /\ stage' = "headers_logged"
    /\ res' = [lines |-> [i \in 1..Len(arg.headers) |-> HeaderLine(arg.headers[i])]]
    /\ UNCHANGED <<arg, runVars>>

NextRedactHeader == RedactHeaderApply

SpecRedactHeader == InitRedactHeader /\ [][NextRedactHeader]_vars

\* C22 as stated: the value of a header named Authorization or Cookie, in
\* any letter case, is logged as the marker; the value of every other header
\* is logged unchanged.
C22_SensitiveRedactedOthersUnchanged ==
    stage = "headers_logged" =>
        /\ Len(res.lines) = Len(arg.headers)
        /\ \A i \in 1..Len(arg.headers) :
              res.lines[i].value =
                  IF arg.headers[i].name \in SensitiveHeaderNames
                  THEN <<Redacted>>
                  ELSE arg.headers[i].value

IsVisibleAscii(value) == \A i \in 1..Len(value) : value[i] \notin NonAscii

\* C22 amended: the value of a header named Authorization or Cookie, in any
\* letter case, is logged as the marker and never as it is; the value of
\* every other header is logged unchanged when it is visible ASCII, and as
\* the placeholder of a value that is not when it is not.
C22_SensitiveRedactedOthersAsText ==
    stage = "headers_logged" =>
        /\ Len(res.lines) = Len(arg.headers)
        /\ \A i \in 1..Len(arg.headers) :
              res.lines[i].value =
                  IF arg.headers[i].name \in SensitiveHeaderNames
                  THEN <<Redacted>>
                  ELSE IF IsVisibleAscii(arg.headers[i].value)
                  THEN arg.headers[i].value
                  ELSE <<NonUtf8>>

\* A Cookie header in mixed case and another header.
C22_Witness ==
    /\ stage = "headers_logged"
    /\ arg.headers = <<[name |-> <<"C", "o", "o", "k", "i", "e">>, value |-> <<"s">>],
                       [name |-> <<"X", "-", "A">>, value |-> <<"s">>]>>
    /\ res.lines[1].value = <<Redacted>>
    /\ res.lines[2].value = <<"s">>

-----------------------------------------------------------------------------
(* render.rs and main.rs 426-446: the bio line.  The placeholders of a     *)
(* format are single characters here; a track is [artist, name,            *)
(* playcount], its name already stripped when strip_feat is on.            *)

BS == "\\"
TAB == "\t"
NUL == "NUL"

\* render.rs 10-38
RECURSIVE InterpretEscapes(_)
InterpretEscapes(input) ==
    IF input = <<>> THEN <<>>
    ELSE IF input[1] # BS THEN <<input[1]>> \o InterpretEscapes(Tail(input))
    ELSE IF Len(input) = 1 THEN <<BS>>
    ELSE LET c == input[2]
             rest == InterpretEscapes(SubSeq(input, 3, Len(input)))
         IN  CASE c = "n" -> <<NL>> \o rest
               [] c = "r" -> <<CR>> \o rest
               [] c = "t" -> <<TAB>> \o rest
               [] c = "0" -> <<NUL>> \o rest
               [] c = BS -> <<BS>> \o rest
               [] c = "\"" -> <<"\"">> \o rest
               [] c = "'" -> <<"'">> \o rest
               [] OTHER -> <<BS, c>> \o rest

\* str::replace of a one-character pattern
RECURSIVE ReplaceChar(_, _, _)
ReplaceChar(t, c, value) ==
    IF t = <<>> THEN <<>>
    ELSE (IF t[1] = c THEN value ELSE <<t[1]>>) \o ReplaceChar(Tail(t), c, value)

\* render.rs 3-7
RenderTemplate(tpl, track) ==
    ReplaceChar(ReplaceChar(ReplaceChar(tpl, "{artist}", track.artist),
                            "{track}", track.name),
                "{playcount}", track.playcount)

\* Vec<String>::join
RECURSIVE JoinWith(_, _)
JoinWith(rendered, sep) ==
    IF rendered = <<>> THEN <<>>
    ELSE IF Len(rendered) = 1 THEN rendered[1]
    ELSE rendered[1] \o sep \o JoinWith(Tail(rendered), sep)

\* main.rs 426-446
BioLine(format, join, prefix, suffix, chosen) ==
    LET rendered == [i \in 1..Len(chosen) |-> RenderTemplate(format, chosen[i])]
        list == JoinWith(rendered, InterpretEscapes(join))
    IN  InterpretEscapes(prefix) \o list \o InterpretEscapes(suffix)

-----------------------------------------------------------------------------
(* SpecRender: the bio line of up to MaxTracks chosen tracks *)

\* The format, join, prefix and suffix of the command line or of the config
\* file, whose KDL strings arrive with their own escapes already decoded.
RenderFormats ==
    {<<"{artist}", "-", "{track}">>,
     <<"{artist}", NL, "{track}">>,
     <<"{artist}", BS, "n", "{track}">>,
     <<"{track}", "{playcount}", BS>>}
RenderJoins == {<<BS, "n">>, <<",">>, <<NL>>}
RenderPrefixes == {<<>>, <<"p", BS, "n">>, <<BS, "q">>}
RenderSuffixes == {<<>>, <<BS>>, <<BS, BS, "n">>}
RenderTracks ==
    {[artist |-> <<"A">>, name |-> <<"T">>, playcount |-> <<"1">>],
     [artist |-> <<"B">>, name |-> <<"U">>, playcount |-> <<"2">>]}

InitRender ==
    /\ stage = "chosen"
    /\ arg \in [format : RenderFormats, join : RenderJoins,
                prefix : RenderPrefixes, suffix : RenderSuffixes,
                chosen : SeqsUpTo(RenderTracks, MaxTracks) \ {<<>>}]
    /\ res = <<>>
    /\ RunIdle

RenderApply ==
    /\ stage = "chosen"
    /\ stage' = "rendered"
    /\ res' = [output |-> BioLine(arg.format, arg.join, arg.prefix, arg.suffix,
                                   arg.chosen)]
    /\ UNCHANGED <<arg, runVars>>

NextRender == RenderApply

SpecRender == InitRender /\ [][NextRender]_vars

\* The bio line of a format, a join, a prefix and a suffix taken as they are.
Assembled(format, join, prefix, suffix, chosen) ==
    prefix
    \o JoinWith([i \in 1..Len(chosen) |-> RenderTemplate(format, chosen[i])], join)
    \o suffix

\* C25 as stated: backslash-n is a newline in the prefix, the suffix, the
\* join and the format before the output is assembled: the output is the one
\* assembled from the four strings with their escapes interpreted.
C25_EscapesInterpretedInFormatToo ==
    stage = "rendered" =>
        res.output = Assembled(InterpretEscapes(arg.format),
                               InterpretEscapes(arg.join),
                               InterpretEscapes(arg.prefix),
                               InterpretEscapes(arg.suffix),
                               arg.chosen)

\* What holds: the escapes of the prefix, the suffix and the join are
\* interpreted, and the format is used as it is.
EscapesInterpretedFormatAsItIs ==
    stage = "rendered" =>
        res.output = Assembled(arg.format,
                               InterpretEscapes(arg.join),
                               InterpretEscapes(arg.prefix),
                               InterpretEscapes(arg.suffix),
                               arg.chosen)

-----------------------------------------------------------------------------
(* main.rs 300-315: the period of the run.  The period of the command line *)
(* and of the config file are Options; main() reads the first as a Period, *)
(* Overall when it was not given.                                          *)

Overall == "overall"
Periods == {Overall, "7day", "1month", "3month", "6month", "12month"}

\* main.rs 302
CliPeriodValue(cli_period) ==
    IF cli_period = None THEN Overall ELSE cli_period[1]

\* main.rs 305-313
ConfigPeriod(pstr, period) == IF pstr \in Periods THEN pstr ELSE period

\* main.rs 302-315
EffectivePeriod(cli_period, cfg_period) ==
    LET period == CliPeriodValue(cli_period) IN
    IF cfg_period # None /\ period = Overall
    THEN ConfigPeriod(cfg_period[1], period)
    ELSE period

CliPeriods == {None} \cup {Some(p) : p \in Periods}
ConfigPeriods == {None} \cup {Some(p) : p \in Periods \cup {"weekly"}}

InitPeriod ==
    /\ stage = "options"
    /\ arg \in [cli_period : CliPeriods, cfg_period : ConfigPeriods]
    /\ res = <<>>
    /\ RunIdle

PeriodApply ==
    /\ stage = "options"
    /\ stage' = "resolved"
    /\ res' = [period |-> EffectivePeriod(arg.cli_period, arg.cfg_period)]
    /\ UNCHANGED <<arg, runVars>>

NextPeriod == PeriodApply

SpecPeriod == InitPeriod /\ [][NextPeriod]_vars

\* C26 as stated: a period given on the command line, 'overall' included, is
\* the effective period whatever the config says; the period of the config
\* is used only when the command line gives none.
C26_CliPeriodOverridesConfig ==
    stage = "resolved" =>
        /\ arg.cli_period # None => res.period = arg.cli_period[1]
        /\ (arg.cli_period = None /\ arg.cfg_period # None
            /\ arg.cfg_period[1] \in Periods)
              => res.period = arg.cfg_period[1]

\* What holds: a period of the command line other than 'overall' is the
\* effective one; 'overall' and no period give way to a period of the config.
CliPeriodOverridesUnlessOverall ==
    stage = "resolved" =>
        /\ (arg.cli_period # None /\ arg.cli_period # Some(Overall))
              => res.period = arg.cli_period[1]
        /\ (arg.cli_period \in {None, Some(Overall)} /\ arg.cfg_period # None
            /\ arg.cfg_period[1] \in Periods)
              => res.period = arg.cfg_period[1]

-----------------------------------------------------------------------------
(* SpecPicker: ui.rs select_ordered_with_cursive on 1..MaxItems items, one *)
(* action per key.  Indices are 0-based.                                   *)

InitPicker ==
    /\ stage = "picking"
    /\ arg \in [items : 1..MaxItems]
    /\ res = [cursor |-> 0, selected |-> <<>>, result |-> None]
    /\ RunIdle

\* ui.rs 66-71
PickerUp ==
    /\ stage = "picking"
    /\ res' = [res EXCEPT !.cursor = IF @ > 0 THEN @ - 1 ELSE @]
    /\ UNCHANGED <<stage, arg, runVars>>

\* A Down that stops one step too late.
PickerDownPastEnd ==
    /\ stage = "picking"
    /\ res' = [res EXCEPT !.cursor = IF @ < arg.items THEN @ + 1 ELSE @]
    /\ UNCHANGED <<stage, arg, runVars>>

\* ui.rs 74-79
PickerDown ==
    /\ stage = "picking"
    /\ res' = [res EXCEPT !.cursor = IF @ + 1 < arg.items THEN @ + 1 ELSE @]
    /\ UNCHANGED <<stage, arg, runVars>>

\* ui.rs 82-92
PickerSpace ==
    /\ stage = "picking"
    /\ LET idx == res.cursor IN
       res' = [res EXCEPT !.selected =
                  IF \E i \in 1..Len(@) : @[i] = idx
                  THEN LET pos == CHOOSE i \in 1..Len(@) :
                                     @[i] = idx /\ \A j \in 1..(i - 1) : @[j] # idx
                       IN  SubSeq(@, 1, pos - 1) \o SubSeq(@, pos + 1, Len(@))
                  ELSE Append(@, idx)]
    /\ UNCHANGED <<stage, arg, runVars>>

\* ui.rs 95-103 and 117-120: Enter without a selection is ignored.
PickerEnter ==
    /\ stage = "picking"
    /\ IF res.selected = <<>>
       THEN UNCHANGED <<stage, res>>
       ELSE /\ stage' = "picked"
            /\ res' = [res EXCEPT !.result = Some(res.selected)]
    /\ UNCHANGED <<arg, runVars>>

NextPicker ==
    \/ PickerUp
    \/ PickerDown
    \/ PickerSpace
    \/ PickerEnter

SpecPicker == InitPicker /\ [][NextPicker]_vars

ItemIndices == 0..(arg.items - 1)

PickerInvariant ==
    /\ res.cursor \in ItemIndices
    /\ \A i \in 1..Len(res.selected) : res.selected[i] \in ItemIndices
    /\ \A i \in 1..Len(res.selected), j \in 1..Len(res.selected) :
          res.selected[i] = res.selected[j] => i = j
    /\ stage = "picking" => res.result = None
    /\ stage = "picked" => res.selected # <<>> /\ res.result = Some(res.selected)

\* A key leaves the selection as it is, or adds the item of the cursor at
\* its end, or takes it out and keeps the others in their order; the picker
\* ends only with a selection, and returns it.
PickerStep ==
    /\ \/ res'.selected = res.selected
       \/ /\ \A i \in 1..Len(res.selected) : res.selected[i] # res.cursor
          /\ res'.selected = Append(res.selected, res.cursor)
       \/ /\ \E i \in 1..Len(res.selected) : res.selected[i] = res.cursor
          /\ res'.selected = SelectSeq(res.selected, LAMBDA x : x # res.cursor)
    /\ stage' = "picked" => res.selected # <<>> /\ res'.result = Some(res.selected)
    /\ stage = "picked" => stage' = "picked"

\* C29: after any keys the cursor is an index of an item; the selection
\* holds distinct indices of items in the order they were toggled on, Space
\* on a selected item taking it out and keeping the order of the others;
\* Enter ends the picker only when the selection is not empty, and returns
\* that list, so every returned index is the index of a track.
C29_PickerKeepsOrderedValidSelection ==
    [](PickerInvariant) /\ [][PickerStep]_vars

\* Two items toggled on in the reverse of their order, and Enter.
C29_Witness ==
    /\ stage = "picked"
    /\ arg.items = MaxItems
    /\ res.result = Some(<<1, 0>>)
    /\ res.cursor = 0

=============================================================================
